---------------------------- MODULE Spec2Model ----------------------------
(***************************************************************************)
(* Model of ingest_pmms.py: the incremental ingestion of the PMMS rate     *)
(* history.  parse_row turns one csv.DictReader row into a record or       *)
(* rejects it; stream_and_ingest opens the SQLite store, reads the         *)
(* watermark, streams the CSV, keeps the records newer than the watermark, *)
(* inserts them in one transaction and closes the connection.              *)
(*                                                                         *)
(* Text is modelled as a sequence of one-character strings, so that        *)
(* strip, lower, strptime, strftime, float and the string comparison of    *)
(* dates are computed character by character, as the code's library calls  *)
(* compute them.                                                           *)
(***************************************************************************)
EXTENDS Integers, Sequences, FiniteSets, TLC

(***************************************************************************)
(* Characters and strings                                                  *)
(***************************************************************************)

\* The characters of the model's inputs, in code-point order.
Ascii ==
    << " ", "+", "-", ".", "/",
       "0", "1", "2", "3", "4", "5", "6", "7", "8", "9",
       "A", "B", "C", "D", "E", "F", "G", "H", "I", "J", "K", "L", "M",
       "N", "O", "P", "Q", "R", "S", "T", "U", "V", "W", "X", "Y", "Z",
       "a", "b", "c", "d", "e", "f", "g", "h", "i", "j", "k", "l", "m",
       "n", "o", "p", "q", "r", "s", "t", "u", "v", "w", "x", "y", "z" >>

Chars == { Ascii[i] : i \in 1..Len(Ascii) }

\* ord(c), counted within the model's characters.
OrdOf == [c \in Chars |-> CHOOSE i \in 1..Len(Ascii) : Ascii[i] = c]

Ord(c) == OrdOf[c]

Digits == << "0", "1", "2", "3", "4", "5", "6", "7", "8", "9" >>

IsDigit(c) == OrdOf[c] >= OrdOf["0"] /\ OrdOf[c] <= OrdOf["9"]

DigitVal(c) == OrdOf[c] - OrdOf["0"]

AllDigits(s) == \A i \in 1..Len(s) : IsDigit(s[i])

\* int() of a string of decimal digits.
RECURSIVE ToInt(_)
ToInt(s) ==
    IF s = <<>> THEN 0
    ELSE 10 * ToInt(SubSeq(s, 1, Len(s) - 1)) + DigitVal(s[Len(s)])

\* Python's None, and the list csv.DictReader stores under the key None for
\* the cells beyond the header.  Neither is a string: every string is a
\* sequence of one-character strings.
None == << "None" >>

RestList == << "list" >>

IsStr(v) == v # None /\ v # RestList

IsSpace(c) == c = " "

\* str.strip()
RECURSIVE LStrip(_)
LStrip(s) ==
    IF s # <<>> /\ IsSpace(s[1]) THEN LStrip(Tail(s)) ELSE s

RECURSIVE RStrip(_)
RStrip(s) ==
    IF s # <<>> /\ IsSpace(s[Len(s)]) THEN RStrip(SubSeq(s, 1, Len(s) - 1)) ELSE s

Strip(s) == RStrip(LStrip(s))

\* str.lower()
LowerOf ==
    [c \in Chars |->
        IF OrdOf[c] >= OrdOf["A"] /\ OrdOf[c] <= OrdOf["Z"]
        THEN Ascii[OrdOf[c] + (OrdOf["a"] - OrdOf["A"])]
        ELSE c]

Lower(s) == [i \in 1..Len(s) |-> LowerOf[s[i]]]

\* a > b on strings: lexicographic by code point, a proper prefix is smaller.
RECURSIVE StrGreater(_, _)
StrGreater(a, b) ==
    IF a = <<>> THEN FALSE
    ELSE IF b = <<>> THEN TRUE
    ELSE IF a[1] # b[1] THEN Ord(a[1]) > Ord(b[1])
    ELSE StrGreater(Tail(a), Tail(b))

\* str.split(sep) for a one-character separator.
RECURSIVE Split(_, _)
Split(s, sep) ==
    IF \A i \in 1..Len(s) : s[i] # sep THEN << s >>
    ELSE LET k == CHOOSE i \in 1..Len(s) :
                      s[i] = sep /\ \A j \in 1..(i - 1) : s[j] # sep
         IN  << SubSeq(s, 1, k - 1) >> \o Split(SubSeq(s, k + 1, Len(s)), sep)

(***************************************************************************)
(* Dates: datetime.strptime and strftime                                   *)
(***************************************************************************)

NoDate == [ok |-> FALSE, year |-> 0, month |-> 0, day |-> 0]

\* %Y of strptime: exactly four digits.
YearField(f) == Len(f) = 4 /\ AllDigits(f)

\* %m of strptime: 1[0-2] | 0[1-9] | [1-9].
MonthField(f) ==
    /\ Len(f) \in {1, 2}
    /\ AllDigits(f)
    /\ ToInt(f) \in 1..12

\* %d of strptime: 3[01] | [12]\d | 0[1-9] | [1-9] | " "[1-9].
DayField(f) ==
    \/ /\ Len(f) \in {1, 2}
       /\ AllDigits(f)
       /\ ToInt(f) \in 1..31
    \/ /\ Len(f) = 2
       /\ f[1] = " "
       /\ IsDigit(f[2])
       /\ DigitVal(f[2]) \in 1..9

DayValue(f) == IF f[1] = " " THEN DigitVal(f[2]) ELSE ToInt(f)

IsLeap(y) == (y % 4 = 0 /\ y % 100 # 0) \/ y % 400 = 0

DaysInMonth(y, m) ==
    IF m = 2 THEN (IF IsLeap(y) THEN 29 ELSE 28)
    ELSE IF m \in {4, 6, 9, 11} THEN 30
    ELSE 31

\* The datetime constructor: ValueError outside MINYEAR..MAXYEAR or for a
\* day the month does not have.
MakeDate(yf, mf, df) ==
    LET y == ToInt(yf)
        m == ToInt(mf)
        d == DayValue(df)
    IN  IF y >= 1 /\ y <= 9999 /\ d <= DaysInMonth(y, m)
        THEN [ok |-> TRUE, year |-> y, month |-> m, day |-> d]
        ELSE NoDate

\* datetime.strptime(s, "%Y-%m-%d"); NoDate stands for ValueError.
StrptimeISO(s) ==
    LET f == Split(s, "-")
    IN  IF Len(f) = 3 /\ YearField(f[1]) /\ MonthField(f[2]) /\ DayField(f[3])
        THEN MakeDate(f[1], f[2], f[3])
        ELSE NoDate

\* datetime.strptime(s, "%m/%d/%Y"); NoDate stands for ValueError.
StrptimeUS(s) ==
    LET f == Split(s, "/")
    IN  IF Len(f) = 3 /\ MonthField(f[1]) /\ DayField(f[2]) /\ YearField(f[3])
        THEN MakeDate(f[3], f[1], f[2])
        ELSE NoDate

Pad2(n) == << Digits[(n \div 10) + 1], Digits[(n % 10) + 1] >>

Pad4(n) == Pad2(n \div 100) \o Pad2(n % 100)

\* The decimal digits of n, without padding.
RECURSIVE Bare(_)
Bare(n) == IF n < 10 THEN << Digits[n + 1] >> ELSE Bare(n \div 10) \o << Digits[(n % 10) + 1] >>

\* dt.strftime("%Y-%m-%d").  Python hands %Y to the C library's strftime:
\* a year below 1000 comes out padded to four digits on some platforms and
\* unpadded on others (glibc: "999"); pads is the platform's choice.
Strftime(dt, pads) ==
    (IF pads THEN Pad4(dt.year) ELSE Bare(dt.year))
    \o << "-" >> \o Pad2(dt.month) \o << "-" >> \o Pad2(dt.day)

\* The nested try of parse_row: the ISO format first, the US format when
\* the ISO format raises ValueError.
parse_date(date_value) ==
    LET iso == StrptimeISO(date_value)
    IN  IF iso.ok THEN iso ELSE StrptimeUS(date_value)

(***************************************************************************)
(* Rates: float()                                                          *)
(***************************************************************************)

\* A rate of a record: null (Python's None) or the decimal num / 10^scale,
\* with no trailing zero in the fraction.
NullRate == [isnull |-> TRUE, num |-> 0, scale |-> 0]

RECURSIVE Decimal(_, _)
Decimal(num, scale) ==
    IF scale > 0 /\ num % 10 = 0 THEN Decimal(num \div 10, scale - 1)
    ELSE [isnull |-> FALSE, num |-> num, scale |-> scale]

\* float(s) for a string of the model's characters: surrounding blanks are
\* ignored, then an optional sign, digits and at most one point, at least
\* one digit.  NullRate stands for ValueError, which parse_row turns into
\* None.  (Exponents, inf, nan and digit underscores are not among the
\* model's inputs.)
to_float(s) ==
    LET t    == Strip(s)
        sgn  == t # <<>> /\ t[1] \in {"+", "-"}
        body == IF sgn THEN Tail(t) ELSE t
        p    == Split(body, ".")
        int  == p[1]
        frac == IF Len(p) = 2 THEN p[2] ELSE <<>>
        mag  == ToInt(int \o frac)
    IN  IF /\ Len(p) \in {1, 2}
           /\ AllDigits(int)
           /\ AllDigits(frac)
           /\ Len(int) + Len(frac) > 0
        THEN Decimal(IF sgn /\ t[1] = "-" THEN 0 - mag ELSE mag, Len(frac))
        ELSE NullRate

(***************************************************************************)
(* Rows: csv.DictReader and parse_row                                      *)
(***************************************************************************)

\* The dict csv.DictReader yields for a line's cells under the header
\* fieldnames, as its items in order: the cells zipped with the names, None
\* for the names that have no cell, and the surplus cells as a list under
\* the key None.  (A repeated name keeps its last value, which is what the
\* last-wins lookup of Get gives.)
DictRow(fieldnames, cells) ==
    [i \in 1..Len(fieldnames) |->
        << fieldnames[i], IF i <= Len(cells) THEN cells[i] ELSE None >>]
    \o (IF Len(cells) > Len(fieldnames) THEN << << None, RestList >> >> ELSE <<>>)

\* {k.strip().lower(): v for k, v in row.items()} raises AttributeError on
\* the key None.
NormalizeRaises(row) == \E i \in 1..Len(row) : ~IsStr(row[i][1])

\* {k.strip().lower(): v for k, v in row.items()}, as the items in order.
normalize(row) == [i \in 1..Len(row) |-> << Lower(Strip(row[i][1])), row[i][2] >>]

\* key in row, for a row of normalised keys.
Has(row, key) == \E i \in 1..Len(row) : row[i][1] = key

\* row.get(key, None) for a row of normalised keys: the dict holds the
\* value of the last item with that key.
Get(row, key) ==
    IF Has(row, key)
    THEN LET i == CHOOSE i \in 1..Len(row) :
                      /\ row[i][1] = key
                      /\ \A j \in (i + 1)..Len(row) : row[j][1] # key
         IN  row[i][2]
    ELSE None

\* a or b
OrElse(a, b) == IF a # None /\ a # <<>> THEN a ELSE b

\* Fault: a rate that float() rejects becomes 0.0 instead of None.
rate_of_zero(v) ==
    IF v = None THEN NullRate
    ELSE IF to_float(v).isnull THEN [isnull |-> FALSE, num |-> 0, scale |-> 0]
    ELSE to_float(v)

\* Lines 254-266: a value that is not None is converted by float(); a
\* ValueError leaves the field None.
rate_of(v) == IF v = None THEN NullRate ELSE to_float(v)

K_date == << "d", "a", "t", "e" >>

K_pmms30 == << "p", "m", "m", "s", "3", "0" >>

K_pmms15 == << "p", "m", "m", "s", "1", "5" >>

K_30yr == << "3", "0", "-", "y", "r", " ", "f", "r", "m" >>

K_15yr == << "1", "5", "-", "y", "r", " ", "f", "r", "m" >>

\* What parse_row returns for a rejected row (None).
Rejected == [ok |-> FALSE, date |-> <<>>, pmms30 |-> NullRate, pmms15 |-> NullRate]

\* Lines 226-272 of parse_row, on the row of normalised keys.  A date
\* value of None raises AttributeError on strip(), which the outer except
\* turns into a rejection.
parse_normalized(row, pads) ==
    IF ~Has(row, K_date) THEN Rejected
    ELSE IF Get(row, K_date) = None THEN Rejected
    ELSE LET date_value == Strip(Get(row, K_date))
             dt_obj     == parse_date(date_value)
         IN  IF date_value = <<>> THEN Rejected
             ELSE IF ~dt_obj.ok THEN Rejected
             ELSE [ok     |-> TRUE,
                   date   |-> Strftime(dt_obj, pads),
                   pmms30 |-> rate_of(OrElse(Get(row, K_pmms30), Get(row, K_30yr))),
                   pmms15 |-> rate_of(OrElse(Get(row, K_pmms15), Get(row, K_15yr)))]

\* parse_row(row): the record of the row, or Rejected.  pads is the
\* platform's strftime behaviour (see Strftime).
parse_row(row, pads) ==
    IF NormalizeRaises(row) THEN Rejected ELSE parse_normalized(normalize(row), pads)

(***************************************************************************)
(* Inputs                                                                  *)
(***************************************************************************)

\* The longest payload, in data lines.
MaxRows == 2

Day(y, m, d) == [year |-> y, month |-> m, day |-> d]

\* Four spellings of a day, and its canonical form YYYY-MM-DD.
IsoPadded(x) == Pad4(x.year) \o << "-" >> \o Pad2(x.month) \o << "-" >> \o Pad2(x.day)

IsoBare(x) == Pad4(x.year) \o << "-" >> \o Bare(x.month) \o << "-" >> \o Bare(x.day)

UsBare(x) == Bare(x.month) \o << "/" >> \o Bare(x.day) \o << "/" >> \o Pad4(x.year)

UsPadded(x) == Pad2(x.month) \o << "/" >> \o Pad2(x.day) \o << "/" >> \o Pad4(x.year)

Canonical(x) == IsoPadded(x)

\* Days of the calendar.
CalendarDays ==
    { Day(2023, 12, 25), Day(2024, 1, 1), Day(2024, 1, 8), Day(2024, 2, 29),
      Day(2024, 3, 1), Day(2024, 11, 30), Day(999, 3, 1) }

\* Triples that are no day of the calendar.
NoDays == { Day(2023, 2, 29), Day(2024, 2, 30), Day(2024, 13, 1), Day(2024, 4, 31), Day(0, 1, 1) }

Blanked(s) == << " " >> \o s \o << " ", " " >>

\* Date cells that are neither format.
JunkDates ==
    { <<>>,
      << " ", " " >>,
      << "n", "/", "a" >>,
      << "2", "0", "2", "4", "/", "0", "3", "/", "0", "1" >>,
      << "0", "3", "-", "0", "1", "-", "2", "0", "2", "4" >>,
      << "2", "4", "-", "0", "3", "-", "0", "1" >>,
      << "3", "/", "1", "/", "2", "4" >>,
      << "2", "0", "2", "4", "-", "0", "3", "-", "0", "1", "1" >>,
      << "2", "0", "2", "4", "-", "0", "3" >> }

DateCells ==
    UNION { { IsoPadded(x), IsoBare(x), UsBare(x), UsPadded(x), Blanked(UsBare(x)) } :
            x \in CalendarDays \cup NoDays }
    \cup JunkDates

\* Rate cells float() converts, and rate cells it raises ValueError on.
NumericCells ==
    { << "7", ".", "1" >>, << "6", ".", "3" >>, << "6", ".", "2" >>, << "6", ".", "9" >>,
      << " ", "7", ".", "1", "0", " " >>, << "7", "." >>, << ".", "5" >>, << "-", "1" >> }

BadCells == { <<>>, << "n", "/", "a" >>, << "." >>, << "7", ".", "1", ".", "0" >>, << " " >> }

\* The value float() gives each numeric cell.
ValueOf(c) ==
    CASE c = << "7", ".", "1" >>                -> [isnull |-> FALSE, num |-> 71, scale |-> 1]
      [] c = << "6", ".", "3" >>                -> [isnull |-> FALSE, num |-> 63, scale |-> 1]
      [] c = << "6", ".", "2" >>                -> [isnull |-> FALSE, num |-> 62, scale |-> 1]
      [] c = << "6", ".", "9" >>                -> [isnull |-> FALSE, num |-> 69, scale |-> 1]
      [] c = << " ", "7", ".", "1", "0", " " >> -> [isnull |-> FALSE, num |-> 71, scale |-> 1]
      [] c = << "7", "." >>                     -> [isnull |-> FALSE, num |-> 7, scale |-> 0]
      [] c = << ".", "5" >>                     -> [isnull |-> FALSE, num |-> 5, scale |-> 1]
      [] c = << "-", "1" >>                     -> [isnull |-> FALSE, num |-> 0 - 1, scale |-> 0]

\* Headers: the canonical names, the published names in mixed case with
\* blanks, both names of each rate, and a header with no date column.
H_canonical == << K_date, K_pmms30, K_pmms15 >>

H_published ==
    << << " ", "D", "a", "t", "e" >>,
       << "3", "0", "-", "Y", "r", " ", "F", "R", "M" >>,
       << "1", "5", "-", "Y", "r", " ", "F", "R", "M", " " >> >>

H_both == << K_pmms30, K_date, K_30yr, << "P", "M", "M", "S", "1", "5" >> >>

H_nodate == << << "w", "e", "e", "k" >>, K_pmms30, K_pmms15 >>

\* The lines of the pipeline's payloads, as the cells of each.
L_jan1 == << IsoPadded(Day(2024, 1, 1)), << "7", ".", "1" >>, << "6", ".", "3" >> >>

L_jan8 == << IsoPadded(Day(2024, 1, 8)), <<>>, << "6", ".", "2" >> >>

L_jan8us == << UsBare(Day(2024, 1, 8)), << "6", ".", "9" >>, << "n", "/", "a" >> >>

L_blank == << << " " >>, << "7", ".", "1" >>, << "6", ".", "3" >> >>

L_surplus == << IsoPadded(Day(2024, 3, 1)), << "7", ".", "1" >>, << "6", ".", "3" >>, << "6", ".", "2" >> >>

L_short == << UsPadded(Day(2023, 12, 25)) >>

L_noday == << IsoPadded(Day(2024, 2, 30)), << "7", ".", "1" >>, << "6", ".", "3" >> >>

\* A day of the year 999, whose emitted date depends on the platform.
L_y999 == << IsoPadded(Day(999, 3, 1)), << "7", ".", "1" >>, << "6", ".", "3" >> >>

PipelineLines ==
    { L_jan1, L_jan8, L_jan8us, L_blank, L_surplus, L_short, L_noday, L_y999 }

PipelineHeaders == { H_canonical, H_published, H_nodate }

Payloads == UNION { [1..n -> PipelineLines] : n \in 0..MaxRows }

\* Stores that earlier runs left: rows with canonical dates, unique per date.
StoreRow(x, r30, r15) == [date |-> Canonical(x), pmms30 |-> r30, pmms15 |-> r15]

Num(n, s) == [isnull |-> FALSE, num |-> n, scale |-> s]

InitialStores ==
    { {},
      { StoreRow(Day(2024, 1, 1), Num(71, 1), Num(63, 1)) },
      { StoreRow(Day(2023, 12, 25), NullRate, NullRate),
        StoreRow(Day(2024, 1, 8), Num(7, 0), Num(62, 1)) } }

\* The values of PROGRESS_LOG_INTERVAL: int(value) of the configuration
\* file accepts every integer.
ProgressIntervals == { 0 - 1, 0, 2 }

(***************************************************************************)
(* The store and the run                                                   *)
(***************************************************************************)

VARIABLES
    strftime_pads,   \* the platform: whether strftime pads %Y to four digits
    interval,        \* CONFIG['PROGRESS_LOG_INTERVAL']
    fieldnames,      \* the payload's header
    lines,           \* the payload's data lines, each its cells
    store,           \* the committed rows of the table
    pending,         \* the rows inserted by the open transaction
    conn,            \* the connection: "none", "open" or "closed"
    conn_bound,      \* whether 'conn' is in locals() of stream_and_ingest
    pc,              \* the run's position
    last_db_date,    \* the watermark
    new_records,     \* the kept batch
    processed_rows,
    skipped_rows,
    row,             \* the row of the last iteration
    clean_data,      \* what parse_row returned for it
    parsed,          \* history: what parse_row returned for each processed row
    executed,        \* records of the batch executed by the insert loop
    error,           \* the exception the run raised, "none" when none
    requests,        \* HTTP requests made by the run
    progress_logs,   \* progress lines logged by the run
    run,             \* 1: the first run, 2: the run repeated on the same payload
    store0           \* the store when the run started

vars ==
    << strftime_pads, interval, fieldnames, lines, store, pending, conn, conn_bound,
       pc, last_db_date, new_records, processed_rows, skipped_rows, row, clean_data,
       parsed, executed, error, requests, progress_logs, run, store0 >>

config == << strftime_pads, interval, fieldnames, lines >>

loop == << new_records, processed_rows, skipped_rows, row, clean_data, parsed, progress_logs >>

DatesOf(rows) == { r.date : r \in rows }

\* SELECT MAX(date): the greatest date under the column's binary collation,
\* NULL for an empty table.
MaxDate(rows) ==
    IF rows = {} THEN None
    ELSE CHOOSE d \in DatesOf(rows) : \A e \in DatesOf(rows) : ~StrGreater(e, d)

\* Fault: the query selects MIN(date).
get_oldest_date_from_db(rows) ==
    IF rows = {} THEN None
    ELSE CHOOSE d \in DatesOf(rows) : \A e \in DatesOf(rows) : ~StrGreater(d, e)

\* get_latest_date_from_db: result[0] if result[0] else None.
get_latest_date_from_db(rows) ==
    LET result == MaxDate(rows)
    IN  IF result # None /\ result # <<>> THEN result ELSE None

\* The dict parse_row returns, as the record kept in new_records.
Record(clean) == [date |-> clean.date, pmms30 |-> clean.pmms30, pmms15 |-> clean.pmms15]

\* Fault: the filter compares with >=.
is_new_inclusive(date, watermark) == watermark = None \/ ~StrGreater(watermark, date)

\* The recency filter of line 320.
is_new(date, watermark) == watermark = None \/ StrGreater(date, watermark)

Abs(n) == IF n < 0 THEN 0 - n ELSE n

\* Fault: the rejection of a row is raised instead of counted.
stream_row_raises(st, r, w, n, pads) ==
    LET processed == st.processed_rows + 1
        clean     == parse_row(r, pads)
        kept      == IF is_new(clean.date, w)
                     THEN Append(st.new_records, Record(clean))
                     ELSE st.new_records
    IN  IF ~clean.ok
        THEN [st EXCEPT !.processed_rows = processed,
                        !.clean_data = clean,
                        !.error = "ValueError"]
        ELSE IF n = 0
        THEN [st EXCEPT !.processed_rows = processed,
                        !.clean_data = clean,
                        !.new_records = kept,
                        !.error = "ZeroDivisionError"]
        ELSE [st EXCEPT !.processed_rows = processed,
                        !.clean_data = clean,
                        !.new_records = kept,
                        !.progress_logs = IF processed % Abs(n) = 0 THEN @ + 1 ELSE @]

\* One iteration of the loop over the reader (lines 311-325) on the loop's
\* state st, for the row r, the watermark w and the progress interval n.
\* The modulus of line 324 raises ZeroDivisionError when n is 0; a rejected
\* row continues before it.
stream_row(st, r, w, n, pads) ==
    LET processed == st.processed_rows + 1
        clean     == parse_row(r, pads)
        kept      == IF is_new(clean.date, w)
                     THEN Append(st.new_records, Record(clean))
                     ELSE st.new_records
    IN  IF ~clean.ok
        THEN [st EXCEPT !.processed_rows = processed,
                        !.skipped_rows = @ + 1,
                        !.clean_data = clean]
        ELSE IF n = 0
        THEN [st EXCEPT !.processed_rows = processed,
                        !.clean_data = clean,
                        !.new_records = kept,
                        !.error = "ZeroDivisionError"]
        ELSE [st EXCEPT !.processed_rows = processed,
                        !.clean_data = clean,
                        !.new_records = kept,
                        !.progress_logs = IF processed % Abs(n) = 0 THEN @ + 1 ELSE @]

\* Fault: INSERT OR REPLACE, the last record of a date wins.
insert_or_replace(committed, pend, record) ==
    { r \in pend : r.date # record.date } \cup { record }

\* INSERT OR IGNORE of one record: the rows of the open transaction after
\* it.  A record whose date is already in the table is ignored.
insert_or_ignore(committed, pend, record) ==
    IF record.date \in DatesOf(committed \cup pend) THEN pend ELSE pend \cup { record }

\* conn.commit(): the committed rows afterwards.
commit(committed, pend) == committed \cup pend

\* Fault: the handler commits what the transaction holds.
rollback_commits(committed, pend) == committed \cup pend

\* conn.rollback(): the committed rows afterwards.
rollback(committed, pend) == committed

\* The errors of the transport, of the CSV framing and of the decoding.
TransportErrors == { "Timeout", "ConnectionError", "HTTPError", "RequestException" }

StreamErrors == { "csv.Error", "UnicodeDecodeError", "ConnectionError" }

\* The exception leaves stream_and_ingest: the outer except logs and
\* re-raises, and finally closes the connection when 'conn' is bound.
Raise(kind, bound) ==
    /\ pc' = "Aborted"
    /\ error' = kind
    /\ conn' = IF bound THEN "closed" ELSE conn

Init ==
    /\ strftime_pads \in BOOLEAN
    /\ interval \in ProgressIntervals
    /\ fieldnames \in PipelineHeaders
    /\ lines \in Payloads
    /\ store \in InitialStores
    /\ store0 = store
    /\ pending = {}
    /\ conn = "none"
    /\ conn_bound = FALSE
    /\ pc = "Init"
    /\ last_db_date = None
    /\ new_records = <<>>
    /\ processed_rows = 0
    /\ skipped_rows = 0
    /\ row = <<>>
    /\ clean_data = Rejected
    /\ parsed = <<>>
    /\ executed = 0
    /\ error = "none"
    /\ requests = 0
    /\ progress_logs = 0
    /\ run = 1

\* get_db_connection returns: the connection is open, the table exists.
Connect ==
    /\ pc = "Init"
    /\ conn' = "open"
    /\ conn_bound' = TRUE
    /\ pc' = "Connected"
    /\ UNCHANGED << config, loop, store, pending, last_db_date, executed, error,
                    requests, run, store0 >>

\* sqlite3.connect raises: no connection was made.
ConnectFail ==
    /\ pc = "Init"
    /\ Raise("sqlite3.Error", FALSE)
    /\ UNCHANGED << config, loop, store, pending, conn_bound, last_db_date, executed,
                    requests, run, store0 >>

\* CREATE TABLE raises inside get_db_connection, after sqlite3.connect
\* returned: the exception leaves get_db_connection, whose local conn is
\* the only name of the connection, and 'conn' is never bound in
\* stream_and_ingest.
SchemaFail ==
    /\ pc = "Init"
    /\ pc' = "Aborted"
    /\ error' = "sqlite3.Error"
    /\ conn' = "open"
    /\ UNCHANGED << config, loop, store, pending, conn_bound, last_db_date, executed,
                    requests, run, store0 >>

\* get_latest_date_from_db returns the watermark.
QueryLatest ==
    /\ pc = "Connected"
    /\ last_db_date' = get_latest_date_from_db(store)
    /\ pc' = "Fetching"
    /\ UNCHANGED << config, loop, store, pending, conn, conn_bound, executed, error,
                    requests, run, store0 >>

QueryFail ==
    /\ pc = "Connected"
    /\ Raise("sqlite3.Error", conn_bound)
    /\ UNCHANGED << config, loop, store, pending, conn_bound, last_db_date, executed,
                    requests, run, store0 >>

\* requests.get returns and raise_for_status passes.
Request ==
    /\ pc = "Fetching"
    /\ requests' = requests + 1
    /\ pc' = "Streaming"
    /\ UNCHANGED << config, loop, store, pending, conn, conn_bound, last_db_date,
                    executed, error, run, store0 >>

\* requests.get or raise_for_status raises.
RequestFail(kind) ==
    /\ pc = "Fetching"
    /\ requests' = requests + 1
    /\ Raise(kind, conn_bound)
    /\ UNCHANGED << config, loop, store, pending, conn_bound, last_db_date, executed,
                    run, store0 >>

\* The reader yields the next row and the loop body runs on it.
StreamRow ==
    /\ pc = "Streaming"
    /\ processed_rows < Len(lines)
    /\ \E r \in { DictRow(fieldnames, lines[processed_rows + 1]) } :
       \E st \in { stream_row([processed_rows |-> processed_rows,
                               skipped_rows   |-> skipped_rows,
                               new_records    |-> new_records,
                               clean_data     |-> clean_data,
                               progress_logs  |-> progress_logs,
                               error          |-> "none"],
                              r, last_db_date, interval, strftime_pads) } :
           /\ row' = r
           /\ processed_rows' = st.processed_rows
           /\ skipped_rows' = st.skipped_rows
           /\ new_records' = st.new_records
           /\ clean_data' = st.clean_data
           /\ parsed' = Append(parsed, st.clean_data)
           /\ progress_logs' = st.progress_logs
           /\ IF st.error # "none"
              THEN Raise(st.error, conn_bound)
              ELSE UNCHANGED << pc, error, conn >>
    /\ UNCHANGED << config, store, pending, conn_bound, last_db_date, executed,
                    requests, run, store0 >>

\* Fault: a failure of the stream is logged and the rows read so far are
\* salvaged.
StreamFail_salvage(kind) ==
    /\ pc = "Streaming"
    /\ processed_rows <= Len(lines)
    /\ error' = kind
    /\ IF new_records # <<>>
       THEN /\ pc' = "Committing"
            /\ UNCHANGED conn
       ELSE /\ pc' = "Done"
            /\ conn' = "closed"
    /\ UNCHANGED << config, loop, store, pending, conn_bound, last_db_date, executed,
                    requests, run, store0 >>

\* Reading the header or the next line raises: a transport error, a CSV
\* framing error or a decoding error.
StreamFail(kind) ==
    /\ pc = "Streaming"
    /\ processed_rows <= Len(lines)
    /\ Raise(kind, conn_bound)
    /\ UNCHANGED << config, loop, store, pending, conn_bound, last_db_date, executed,
                    requests, run, store0 >>

\* The reader is exhausted: the batch goes to the insert, or, when it is
\* empty, the run ends and finally closes the connection.
StreamEnd ==
    /\ pc = "Streaming"
    /\ processed_rows = Len(lines)
    /\ IF new_records # <<>>
       THEN /\ pc' = "Committing"
            /\ UNCHANGED conn
       ELSE /\ pc' = "Done"
            /\ conn' = "closed"
    /\ UNCHANGED << config, loop, store, pending, conn_bound, last_db_date, executed,
                    error, requests, run, store0 >>

\* cursor.execute of the next record of the batch.
ExecuteInsert ==
    /\ pc = "Committing"
    /\ executed < Len(new_records)
    /\ pending' = insert_or_ignore(store, pending, new_records[executed + 1])
    /\ executed' = executed + 1
    /\ UNCHANGED << config, loop, store, conn, conn_bound, pc, last_db_date, error,
                    requests, run, store0 >>

\* cursor.execute raises sqlite3.Error: rollback, re-raise, close.
InsertFail ==
    /\ pc = "Committing"
    /\ executed < Len(new_records)
    /\ store' = rollback(store, pending)
    /\ pending' = {}
    /\ Raise("sqlite3.Error", conn_bound)
    /\ UNCHANGED << config, loop, conn_bound, last_db_date, executed, requests, run,
                    store0 >>

\* conn.commit() returns; finally closes the connection.
Commit ==
    /\ pc = "Committing"
    /\ executed = Len(new_records)
    /\ store' = commit(store, pending)
    /\ pending' = {}
    /\ pc' = "Done"
    /\ conn' = "closed"
    /\ UNCHANGED << config, loop, conn_bound, last_db_date, executed, error, requests,
                    run, store0 >>

\* conn.commit() raises sqlite3.Error: rollback, re-raise, close.
CommitFail ==
    /\ pc = "Committing"
    /\ executed = Len(new_records)
    /\ store' = rollback(store, pending)
    /\ pending' = {}
    /\ Raise("sqlite3.Error", conn_bound)
    /\ UNCHANGED << config, loop, conn_bound, last_db_date, executed, requests, run,
                    store0 >>

\* The caller runs stream_and_ingest again on the unchanged payload.
Rerun ==
    /\ pc = "Done"
    /\ run = 1
    /\ run' = 2
    /\ store0' = store
    /\ conn' = "none"
    /\ conn_bound' = FALSE
    /\ pc' = "Init"
    /\ last_db_date' = None
    /\ new_records' = <<>>
    /\ processed_rows' = 0
    /\ skipped_rows' = 0
    /\ row' = <<>>
    /\ clean_data' = Rejected
    /\ parsed' = <<>>
    /\ executed' = 0
    /\ requests' = 0
    /\ progress_logs' = 0
    /\ UNCHANGED << config, store, pending, error >>

Next ==
    \/ Connect
    \/ ConnectFail
    \/ SchemaFail
    \/ QueryLatest
    \/ QueryFail
    \/ Request
    \/ \E kind \in TransportErrors : RequestFail(kind)
    \/ StreamRow
    \/ \E kind \in StreamErrors : StreamFail(kind)
    \/ StreamEnd
    \/ ExecuteInsert
    \/ InsertFail
    \/ Commit
    \/ CommitFail
    \/ Rerun

Spec == Init /\ [][Next]_vars

(***************************************************************************)
(* parse_row alone, on a wider set of rows                                 *)
(***************************************************************************)

RatePairs ==
    { << << "7", ".", "1" >>, << "6", ".", "3" >> >>,
      << <<>>, << " ", "7", ".", "1", "0", " " >> >>,
      << << "n", "/", "a" >>, << ".", "5" >> >>,
      << << "7", "." >>, << "7", ".", "1", ".", "0" >> >> }

\* Lines of three cells, of one cell and of four, the date first.
DateFirstLines ==
    { << d, p[1], p[2] >> : d \in DateCells, p \in RatePairs }
    \cup { << d >> : d \in DateCells }
    \cup { << d, << "7", ".", "1" >>, << "6", ".", "3" >>, << "6", ".", "2" >> >> : d \in DateCells }

\* Lines for the header H_both, whose date is the second column and whose
\* 30-year rate has both of its columns.
DateSecondLines ==
    { << a, d, b, << "6", ".", "3" >> >> :
        a \in { <<>>, << "7", ".", "1" >>, << "n", "/", "a" >> },
        d \in { IsoPadded(Day(2024, 3, 1)), UsBare(Day(2024, 3, 1)) },
        b \in { <<>>, << "6", ".", "9" >>, << "." >> } }
    \cup { << << "7", ".", "1" >> >> }

ParserRows ==
    { DictRow(h, c) : h \in { H_canonical, H_published, H_nodate }, c \in DateFirstLines }
    \cup { DictRow(H_both, c) : c \in DateSecondLines }

ParserInit ==
    /\ strftime_pads \in BOOLEAN
    /\ row \in ParserRows
    /\ clean_data = Rejected
    /\ parsed = <<>>
    /\ pc = "parse_row"
    /\ interval = 1
    /\ fieldnames = <<>>
    /\ lines = <<>>
    /\ store = {}
    /\ store0 = {}
    /\ pending = {}
    /\ conn = "none"
    /\ conn_bound = FALSE
    /\ last_db_date = None
    /\ new_records = <<>>
    /\ processed_rows = 0
    /\ skipped_rows = 0
    /\ executed = 0
    /\ error = "none"
    /\ requests = 0
    /\ progress_logs = 0
    /\ run = 1

\* parse_row is called on the row and returns.
CallParseRow ==
    /\ pc = "parse_row"
    /\ clean_data' = parse_row(row, strftime_pads)
    /\ pc' = "returned"
    /\ UNCHANGED << config, store, pending, conn, conn_bound, last_db_date, new_records,
                    processed_rows, skipped_rows, row, parsed, executed, error,
                    requests, progress_logs, run, store0 >>

ParserNext == CallParseRow

ParserSpec == ParserInit /\ [][ParserNext]_vars

(***************************************************************************)
(* Properties                                                              *)
(***************************************************************************)

RowAt(i) == DictRow(fieldnames, lines[i])

Terminal == pc \in { "Done", "Aborted" }

Streamed == pc \in { "Streaming", "Committing", "Done", "Aborted" } /\ requests = 1

\* Of the first n rows, the records parse_row returned that satisfy the
\* recency rule for the watermark w, in input order.
RECURSIVE KeptUpTo(_, _)
KeptUpTo(n, w) ==
    IF n = 0 THEN <<>>
    ELSE LET c == parsed[n]
         IN  IF c.ok /\ (w = None \/ StrGreater(c.date, w))
             THEN Append(KeptUpTo(n - 1, w), Record(c))
             ELSE KeptUpTo(n - 1, w)

\* C1: once the watermark W has been read (none exactly when the table was
\* empty, the greatest stored date otherwise), the kept batch is, in input
\* order, exactly the parsed records of the processed rows whose date is
\* greater than W as a string, or all of them when W is none; no kept record
\* has the date W.
C1_RecencyFilter ==
    Streamed =>
        /\ (last_db_date = None) <=> (store0 = {})
        /\ store0 # {} =>
              /\ last_db_date \in DatesOf(store0)
              /\ \A r \in store0 : ~StrGreater(r.date, last_db_date)
        /\ Len(parsed) = processed_rows
        /\ new_records = KeptUpTo(processed_rows, last_db_date)
        /\ \A i \in 1..Len(new_records) : new_records[i].date # last_db_date

\* C1's case: a run on a store with a watermark has processed a record of
\* the watermark's date, which it dropped, and kept a later one.
C1_Witness ==
    /\ pc = "Done"
    /\ last_db_date # None
    /\ Len(new_records) >= 1
    /\ \E i \in 1..processed_rows : parsed[i].ok /\ parsed[i].date = last_db_date

\* C2: the run repeated on the unchanged payload after a successful run
\* keeps no record and leaves the store as the first run left it.
C2_Idempotent ==
    run = 2 => /\ new_records = <<>>
               /\ pending = {}
               /\ store = store0

\* C2's case: the first run inserted the record of 2024-01-08, and the
\* repeated run has processed both lines of the payload and ended.
C2_Witness ==
    /\ run = 2
    /\ pc = "Done"
    /\ processed_rows = 2
    /\ fieldnames = H_canonical
    /\ lines = << L_jan1, L_jan8 >>
    /\ DatesOf(store) = { Canonical(Day(2024, 1, 1)), Canonical(Day(2024, 1, 8)) }
    /\ StoreRow(Day(2024, 1, 8), NullRate, Num(62, 1)) \in store

\* C3: a step that leaves the insert loop or the commit by an error rolls
\* the batch back: the store is what it was before the run, no row of the
\* batch is pending, the error is raised to the caller and the connection
\* is closed.
C3_BatchAtomic ==
    [][(pc = "Committing" /\ pc' = "Aborted") =>
          /\ store' = store0
          /\ pending' = {}
          /\ error' = "sqlite3.Error"
          /\ conn' = "closed"]_vars

\* C3's case: the insert failed after a record of the batch was executed.
C3_Witness ==
    /\ pc = "Aborted"
    /\ error = "sqlite3.Error"
    /\ requests = 1
    /\ executed >= 1
    /\ Len(new_records) > executed

\* C4: when the run is Done or Aborted, no connection opened during the run
\* is still open.
C4_ConnectionReleased == Terminal => conn # "open"

\* C5: after a transport, framing or decoding error the run is Aborted with
\* that error, one request was made and none repeated, no insert was
\* executed and the store is what it was before the run.
C5_NoPartialIngestion ==
    error \in (TransportErrors \cup StreamErrors) =>
        /\ pc = "Aborted"
        /\ requests = 1
        /\ executed = 0
        /\ pending = {}
        /\ store = store0

\* C5's case: the error came in mid-stream, after a record was kept.
C5_Witness ==
    /\ error = "UnicodeDecodeError"
    /\ Len(new_records) >= 1
    /\ processed_rows < Len(lines)

ParsedCount(n) == Cardinality({ i \in 1..n : parsed[i].ok })

\* C6: after any prefix of the stream the processed rows are the skipped
\* rows plus the parsed rows; and an iteration whose row parse_row rejects
\* adds one to the skipped rows, leaves the kept batch alone, raises nothing
\* and stays in the loop.
C6_RejectionContinues ==
    /\ [](Streamed => /\ Len(parsed) = processed_rows
                       /\ processed_rows = skipped_rows + ParsedCount(processed_rows))
    /\ [][(processed_rows' = processed_rows + 1 /\ ~clean_data'.ok) =>
             /\ skipped_rows' = skipped_rows + 1
             /\ new_records' = new_records
             /\ error' = "none"
             /\ pc' = "Streaming"]_vars

\* C6's case: a row whose parsing raised (surplus cells, under the key
\* None) was skipped after another row had been skipped, and the loop goes
\* on.
C6_Witness ==
    /\ pc = "Streaming"
    /\ skipped_rows = 2
    /\ processed_rows = 2
    /\ NormalizeRaises(row)

\* A row with a well-formed date: an item whose name is "date", after
\* trimming and lowering, and whose value either format accepts.
WellFormedDate(r) ==
    \E i \in 1..Len(r) :
        /\ IsStr(r[i][1])
        /\ Lower(Strip(r[i][1])) = K_date
        /\ IsStr(r[i][2])
        /\ parse_date(Strip(r[i][2])).ok

\* The value a rate is resolved from: the first column, or the fallback
\* column when the first is absent or empty.
Resolved(r, first, fallback) ==
    LET a == Get(normalize(r), first)
    IN  IF a = None \/ a = <<>> THEN Get(normalize(r), fallback) ELSE a

\* The rate a resolved value gives: null when it is absent, empty or not
\* convertible, its number otherwise.
RateFrom(v) == IF v \in NumericCells THEN ValueOf(v) ELSE NullRate

RatesTolerated(r, c) ==
    /\ c.ok
    /\ c.pmms30 = RateFrom(Resolved(r, K_pmms30, K_30yr))
    /\ c.pmms15 = RateFrom(Resolved(r, K_pmms15, K_15yr))

\* The end-to-end scenario: header, (2024-01-01, 7.1, 6.3) and
\* (2024-01-08, empty, 6.2) on an empty store.
Scenario ==
    /\ run = 1
    /\ pc = "Done"
    /\ store0 = {}
    /\ fieldnames = H_canonical
    /\ lines = << L_jan1, L_jan8 >>

ScenarioStored ==
    store = { StoreRow(Day(2024, 1, 1), Num(71, 1), Num(63, 1)),
              StoreRow(Day(2024, 1, 8), NullRate, Num(62, 1)) }

\* An iteration of the loop has just parsed row into clean_data: the loop
\* goes on, or the iteration raised.
JustParsed ==
    /\ processed_rows >= 1
    /\ pc = "Streaming" \/ error = "ZeroDivisionError"

\* C7 as stated: every processed row with a well-formed date gives a record
\* whose rates are null exactly when their resolved value is absent, empty
\* or not convertible; and the scenario stores its two records.
C7_AsStated ==
    /\ (JustParsed /\ WellFormedDate(row)) => RatesTolerated(row, clean_data)
    /\ Scenario => ScenarioStored

\* C7, amended: the same for every processed row with a well-formed date
\* and no cell beyond the header's columns.
C7_PartialFieldTolerance ==
    /\ (JustParsed /\ WellFormedDate(row) /\ ~NormalizeRaises(row)) =>
           RatesTolerated(row, clean_data)
    /\ Scenario => ScenarioStored

\* C7's case: the scenario has run to its end, its last row parsed with an
\* empty 30-year rate.
C7_Witness ==
    /\ Scenario
    /\ clean_data.ok
    /\ clean_data.pmms30 = NullRate
    /\ clean_data.pmms15 = Num(62, 1)

\* The first record of a batch with the date d.
FirstWithDate(batch, d) ==
    batch[CHOOSE i \in 1..Len(batch) :
              /\ batch[i].date = d
              /\ \A j \in 1..(i - 1) : batch[j].date # d]

BatchDates(batch) == { batch[i].date : i \in 1..Len(batch) }

\* C8: after a successful run the store is the store before the run plus,
\* for each date of the kept batch that was not stored, the first kept
\* record of that date; the rows from before are there unchanged and no two
\* rows share a date.
C8_PostState ==
    pc = "Done" =>
        /\ store = store0 \cup { FirstWithDate(new_records, d) :
                                   d \in BatchDates(new_records) \ DatesOf(store0) }
        /\ store0 \subseteq store
        /\ Cardinality(DatesOf(store)) = Cardinality(store)

\* C8's case: a successful run on a store that held rows, whose batch held
\* two different records of one date.
C8_Witness ==
    /\ pc = "Done"
    /\ store0 # {}
    /\ \E i, j \in 1..Len(new_records) :
          /\ i < j
          /\ new_records[i].date = new_records[j].date
          /\ new_records[i] # new_records[j]

IsCalendarDay(x) ==
    /\ x.year >= 1
    /\ x.month \in 1..12
    /\ x.day \in 1..DaysInMonth(x.year, x.month)

\* The date value parse_row reads from a row it got as far as reading it
\* from.
DateValue(r) == Strip(Get(normalize(r), K_date))

HasDateValue(r) ==
    /\ ~NormalizeRaises(r)
    /\ Has(normalize(r), K_date)
    /\ Get(normalize(r), K_date) # None
    /\ DateValue(r) # <<>>

\* C9: a date value that spells a calendar day in the ISO or in the US
\* format gives that day in the canonical form YYYY-MM-DD, the same for
\* both spellings; a value that is neither, or spells no day of the
\* calendar, rejects the row.
C9_DateParsing ==
    (pc = "returned" /\ HasDateValue(row)) =>
        /\ \A x \in CalendarDays \cup NoDays :
              DateValue(row) \in { IsoPadded(x), IsoBare(x), UsBare(x), UsPadded(x) } =>
                  IF IsCalendarDay(x)
                  THEN clean_data.ok /\ clean_data.date = Canonical(x)
                  ELSE ~clean_data.ok
        /\ DateValue(row) \in JunkDates => ~clean_data.ok

\* C10: in every iteration of the loop, the progress interval has no effect
\* on what the iteration leaves: for every interval the configuration
\* accepts, the row counts, the kept batch and the raised error are those
\* the configured interval gives.  (Runs that differ only in the interval
\* then agree step by step, and so in their terminal state.)
C10_IntervalUnobservable ==
    (pc = "Streaming" /\ processed_rows < Len(lines)) =>
        \A n \in ProgressIntervals :
            LET st0  == [processed_rows |-> processed_rows,
                         skipped_rows   |-> skipped_rows,
                         new_records    |-> new_records,
                         clean_data     |-> clean_data,
                         progress_logs  |-> 0,
                         error          |-> "none"]
                r    == RowAt(processed_rows + 1)
                a    == stream_row(st0, r, last_db_date, n, strftime_pads)
                b    == stream_row(st0, r, last_db_date, interval, strftime_pads)
            IN  [a EXCEPT !.progress_logs = 0] = [b EXCEPT !.progress_logs = 0]

=============================================================================
